---------------------------- MODULE Spec2Model ----------------------------
(***************************************************************************)
(* Model of the wepadel-coach-backend relay (src/server.js, the later      *)
(* revision of the file, lines 132-283): the POST /coach/chat handler,     *)
(* its helpers buildSystemBlock, normalizeThread and extractReply, and the *)
(* JavaScript value semantics those helpers rely on.                       *)
(*                                                                         *)
(* JavaScript values are tagged records; a string is a sequence of         *)
(* one-character strings, so that concatenation and trimming are computed. *)
(* A call that can raise returns a record with a "threw" flag.             *)
(***************************************************************************)
EXTENDS Integers, Sequences, FiniteSets, TLC

VARIABLES
    env,        \* process.env: GEMINI_API_KEY and GEMINI_MODEL
    pc,         \* per request: where its handler invocation stands
    req,        \* per request: the request received (body, query.debug)
    out,        \* per request: sequence of outbound fetch calls issued
    upstream,   \* per request: what the upstream call has produced so far
    res,        \* per request: sequence of responses written to the client
    thread,     \* argument of a stand-alone normalizeThread call
    turns,      \* its result
    json,       \* argument of a stand-alone extractReply call
    reply       \* its result

vars == <<env, pc, req, out, upstream, res, thread, turns, json, reply>>
handlerVars == <<env, pc, req, out, upstream, res>>
threadVars == <<thread, turns>>
replyVars == <<json, reply>>

---------------------------------------------------------------------------
(* Bounds of the model *)

NumRequests == 3        \* requests whose handling may interleave
MaxTurns == 12          \* longest history built from the two-turn alphabet
MaxShortTurns == 2      \* longest history built from the full turn alphabet
MaxParts == 3           \* longest parts list of an upstream envelope
MaxTextLen == 2         \* longest text of one part

(* Program constants *)

KeepTurns == 10         \* .slice(-10)
Temperature10 == 7      \* temperature 0.7, in tenths
MaxOutputTokens == 1200

---------------------------------------------------------------------------
(* JavaScript values *)

Undefined == [t |-> "undefined"]
Null == [t |-> "null"]
Bool(b) == [t |-> "boolean", bool |-> b]
Num(n) == [t |-> "number", num |-> n]
Str(s) == [t |-> "string", str |-> s]
Obj(o) == [t |-> "object", obj |-> o]
Arr(a) == [t |-> "array", arr |-> a]

Nullish(v) == v.t \in {"undefined", "null"}

\* !v
Falsy(v) ==
    \/ Nullish(v)
    \/ v.t = "boolean" /\ ~v.bool
    \/ v.t = "number" /\ v.num = 0
    \/ v.t = "string" /\ v.str = <<>>

\* typeof v
TypeOf(v) ==
    CASE v.t = "undefined" -> "undefined"
      [] v.t = "null" -> "object"
      [] v.t = "array" -> "object"
      [] OTHER -> v.t

\* a ?? b
Coalesce(a, b) == IF Nullish(a) THEN b ELSE a

\* v?.k for the property names the program reads (none of them is a
\* built-in property of strings, numbers or arrays)
Get(v, k) ==
    IF v.t = "object" /\ k \in DOMAIN v.obj THEN v.obj[k] ELSE Undefined

\* v?.[0]
At0(v) ==
    CASE v.t = "array" -> IF Len(v.arr) > 0 THEN v.arr[1] ELSE Undefined
      [] v.t = "string" -> IF Len(v.str) > 0 THEN Str(<<v.str[1]>>) ELSE Undefined
      [] OTHER -> Get(v, "0")

Digits == <<"0", "1", "2", "3", "4", "5", "6", "7", "8", "9">>

RECURSIVE NumToStr(_)
NumToStr(n) ==
    IF n < 0 THEN <<"-">> \o NumToStr(-n)
    ELSE IF n < 10 THEN <<Digits[n + 1]>>
    ELSE NumToStr(n \div 10) \o <<Digits[(n % 10) + 1]>>

ObjectObject == <<"[", "o", "b", "j", "e", "c", "t", " ", "O", "b", "j", "e", "c", "t", "]">>

\* String(v), also the conversion done by a template literal and by join
RECURSIVE JSString(_)
RECURSIVE JoinWith(_, _)
JSString(v) ==
    CASE v.t = "string" -> v.str
      [] v.t = "number" -> NumToStr(v.num)
      [] v.t = "boolean" -> IF v.bool THEN <<"t", "r", "u", "e">>
                                      ELSE <<"f", "a", "l", "s", "e">>
      [] v.t = "null" -> <<"n", "u", "l", "l">>
      [] v.t = "undefined" -> <<"u", "n", "d", "e", "f", "i", "n", "e", "d">>
      [] v.t = "object" -> ObjectObject
      [] v.t = "array" -> JoinWith(v.arr, <<",">>)

\* Array.prototype.join: null and undefined elements give the empty string
JoinWith(a, sep) ==
    IF a = <<>> THEN <<>>
    ELSE LET h == IF Nullish(Head(a)) THEN <<>> ELSE JSString(Head(a))
         IN  IF Len(a) = 1 THEN h ELSE h \o sep \o JoinWith(Tail(a), sep)

WhiteSpace == {" ", "\t", "\n", "\r"}

RECURSIVE TrimStart(_)
TrimStart(s) ==
    IF s # <<>> /\ Head(s) \in WhiteSpace THEN TrimStart(Tail(s)) ELSE s

RECURSIVE TrimEnd(_)
TrimEnd(s) ==
    IF s # <<>> /\ s[Len(s)] \in WhiteSpace
    THEN TrimEnd(SubSeq(s, 1, Len(s) - 1)) ELSE s

\* String.prototype.trim
Trim(s) == TrimEnd(TrimStart(s))

\* slice(0, n) in place of slice(-n): the first n elements
SliceFirst(a, n) == IF Len(a) <= n THEN a ELSE SubSeq(a, 1, n)

\* Array.prototype.slice(-n)
SliceLast(a, n) == IF Len(a) <= n THEN a ELSE SubSeq(a, Len(a) - n + 1, Len(a))

---------------------------------------------------------------------------
(* buildSystemBlock, normalizeThread, extractReply *)

RecentHdr == <<"\n", "\n", "R", "e", "c", "e", "n", "t", " ", "m", "a", "t", "c", "h", "e", "s", ":", "\n">>
ConstraintsHdr == <<"\n", "\n", "C", "o", "n", "s", "t", "r", "a", "i", "n", "t", "s", ":", "\n">>

buildSystemBlock(contextPack) ==
    LET coachPersona == Coalesce(Get(contextPack, "coachPersona"), Str(<<>>))
        playerProfile == Coalesce(Get(contextPack, "playerProfile"), Str(<<>>))
        recentMatchesSummary ==
            Coalesce(Get(contextPack, "recentMatchesSummary"), Str(<<>>))
        constraints == Coalesce(Get(contextPack, "constraints"), Str(<<>>))
    IN  Trim(<<"\n">> \o JSString(coachPersona)
             \o <<"\n", "\n">> \o JSString(playerProfile)
             \o RecentHdr \o JSString(recentMatchesSummary)
             \o ConstraintsHdr \o JSString(constraints)
             \o <<"\n">>)

UserLit == <<"u", "s", "e", "r">>

\* the callback of .map in normalizeThread
normalizeTurn(t) ==
    [role |-> IF Get(t, "role") = Str(UserLit) THEN "user" ELSE "model",
     parts |-> <<[text |-> JSString(Coalesce(Get(t, "text"), Str(<<>>)))]>>]

\* (thread?.turns ?? []) must have .slice and its result .map: anything but
\* an array raises a TypeError
normalizeThread(th) ==
    LET list == Coalesce(Get(th, "turns"), Arr(<<>>))
    IN  IF list.t # "array"
        THEN [threw |-> TRUE, err |-> "TypeError"]
        ELSE LET kept == SliceLast(list.arr, KeepTurns)
             IN  [threw |-> FALSE,
                  turns |-> [i \in 1..Len(kept) |-> normalizeTurn(kept[i])]]

\* the fallback literal; its typographic apostrophe is written as the ASCII one
Fallback == <<"I", "'", "m", " ", "h", "e", "r", "e", ".", " ", "T", "e", "l", "l", " ", "m", "e", " ", "w", "h", "a", "t", " ", "y", "o", "u", " ", "w", "a", "n", "t", " ", "t", "o", " ", "i", "m", "p", "r", "o", "v", "e", " ", "t", "o", "d", "a", "y", ".">>

\* extractReply without the fallback: the trimmed text, empty or not
extractReplyNoFallback(j) ==
    LET parts == Coalesce(
                   Get(Get(At0(Get(j, "candidates")), "content"), "parts"),
                   Arr(<<>>))
    IN  IF parts.t # "array"
        THEN [threw |-> TRUE, err |-> "TypeError"]
        ELSE [threw |-> FALSE,
              reply |-> Trim(JoinWith(
                          [i \in 1..Len(parts.arr) |->
                              Coalesce(Get(parts.arr[i], "text"), Str(<<>>))],
                          <<>>))]

\* the callback of .map in extractReply
partText(p) == Coalesce(Get(p, "text"), Str(<<>>))

extractReply(j) ==
    LET parts == Coalesce(
                   Get(Get(At0(Get(j, "candidates")), "content"), "parts"),
                   Arr(<<>>))
    IN  IF parts.t # "array"
        THEN [threw |-> TRUE, err |-> "TypeError"]
        ELSE LET texts == [i \in 1..Len(parts.arr) |-> partText(parts.arr[i])]
                 text == JoinWith(texts, <<>>)
             IN  [threw |-> FALSE,
                  reply |-> IF text # <<>> /\ Len(Trim(text)) > 0
                            THEN Trim(text) ELSE Fallback]

---------------------------------------------------------------------------
(* The POST /coach/chat handler, lines 202-277 *)

Requests == 1..NumRequests

\* res.status(s).json(b): what is written to the client
Response(s, b) == [status |-> s, body |-> b]

\* a catch block that reports the exception
UnexpectedErrorLeaks(e) ==
    [status |-> 500, body |-> [error |-> "Unexpected error", detail |-> e]]

\* the catch block: the exception e is dropped
UnexpectedError(e) == Response(500, [error |-> "Unexpected error"])

\* the guards with contextPack checked before userMessage
validateContextFirst(apiKey, userMessage, contextPack) ==
    IF Falsy(apiKey)
    THEN Response(500, [error |-> "Missing GEMINI_API_KEY"])
    ELSE IF Falsy(contextPack) \/ TypeOf(contextPack) # "object"
    THEN Response(400, [error |-> "Missing or invalid contextPack"])
    ELSE IF Falsy(userMessage) \/ TypeOf(userMessage) # "string"
    THEN Response(400, [error |-> "Missing or invalid userMessage"])
    ELSE [status |-> 0, body |-> [pass |-> TRUE]]

\* the three guards at the top of the handler; "pass" when none fails
validate(apiKey, userMessage, contextPack) ==
    IF Falsy(apiKey)
    THEN Response(500, [error |-> "Missing GEMINI_API_KEY"])
    ELSE IF Falsy(userMessage) \/ TypeOf(userMessage) # "string"
    THEN Response(400, [error |-> "Missing or invalid userMessage"])
    ELSE IF Falsy(contextPack) \/ TypeOf(contextPack) # "object"
    THEN Response(400, [error |-> "Missing or invalid contextPack"])
    ELSE [status |-> 0, body |-> [pass |-> TRUE]]

Passed(v) == v.status = 0

DefaultModel == <<"g", "e", "m", "i", "n", "i", "-", "2", ".", "5", "-", "f", "l", "a", "s", "h">>

\* process.env.GEMINI_MODEL ?? "gemini-2.5-flash"
modelName(e) == JSString(Coalesce(e.GEMINI_MODEL, Str(DefaultModel)))

\* the body with the new turn placed before the history
buildBodyMessageFirst(systemBlock, history, userMessage) ==
    [systemInstruction |-> [parts |-> <<[text |-> systemBlock]>>],
     contents |-> <<[role |-> "user",
                     parts |-> <<[text |-> userMessage.str]>>]>> \o history,
     generationConfig |-> [temperature10 |-> Temperature10,
                           maxOutputTokens |-> MaxOutputTokens,
                           responseMimeType |-> "text/plain"]]

\* the body object of the outbound call
buildBody(systemBlock, history, userMessage) ==
    [systemInstruction |-> [parts |-> <<[text |-> systemBlock]>>],
     contents |-> history \o <<[role |-> "user",
                                parts |-> <<[text |-> userMessage.str]>>]>>,
     generationConfig |-> [temperature10 |-> Temperature10,
                           maxOutputTokens |-> MaxOutputTokens,
                           responseMimeType |-> "text/plain"]]

\* fetch(url, {method, headers, body})
fetchCall(e, body) ==
    [url |-> [model |-> modelName(e), key |-> JSString(e.GEMINI_API_KEY)],
     method |-> "POST",
     body |-> body]

\* The synchronous prefix of the handler, up to the first await: either a
\* response (a guard failed, or an exception reached the catch block) or
\* the outbound call to issue.
handlerStart(e, request) ==
    LET b == Coalesce(request.body, Obj([userMessage |-> Undefined]))
        userMessage == Get(b, "userMessage")
        contextPack == Get(b, "contextPack")
        th == Get(b, "thread")
        v == validate(e.GEMINI_API_KEY, userMessage, contextPack)
    IN  IF ~Passed(v) THEN [respond |-> v]
        ELSE LET systemBlock == buildSystemBlock(contextPack)
                 nt == normalizeThread(th)
             IN  IF nt.threw THEN [respond |-> UnexpectedError(nt.err)]
                 ELSE [fetch |-> fetchCall(e,
                                   buildBody(systemBlock, nt.turns, userMessage))]

\* a test that takes every status below 400 for a success
OkBelow400(r) == r.status < 400

\* r.ok
Ok(r) == 200 <= r.status /\ r.status <= 299

\* JSON.parse of a body text: a text is either the serialisation of a JSON
\* document ("doc") or characters that are not JSON ("chars")
JSONparse(text) ==
    IF "doc" \in DOMAIN text THEN [threw |-> FALSE, json |-> text.doc]
    ELSE [threw |-> TRUE, err |-> "SyntaxError"]

\* the 502 response
BadGateway(r, rawText) ==
    Response(502, [error |-> "Gemini call failed",
                   status |-> r.status,
                   detail |-> rawText])

\* String(req.query.debug ?? "") === "1"
isDebug(request) == JSString(Coalesce(request.debug, Str(<<>>))) = <<"1">>

\* the 200 response, plain or with the debug fields
Success(e, request, j, rep) ==
    IF isDebug(request)
    THEN Response(200,
           [reply |-> rep,
            meta |-> [model |-> modelName(e),
                      finishReason |->
                          Coalesce(Get(At0(Get(j, "candidates")), "finishReason"), Null),
                      usage |-> Coalesce(Get(j, "usageMetadata"), Null)],
            raw |-> j])
    ELSE Response(200, [reply |-> rep])

\* The handler after `await r.text()` has produced rawText
handlerAfterText(e, request, r, rawText) ==
    IF ~Ok(r) THEN BadGateway(r, rawText)
    ELSE LET parsed == JSONparse(rawText)
         IN  IF parsed.threw THEN UnexpectedError(parsed.err)
             ELSE LET rep == extractReply(parsed.json)
                  IN  IF rep.threw THEN UnexpectedError(rep.err)
                      ELSE Success(e, request, parsed.json, rep.reply)

---------------------------------------------------------------------------
(* State of one exchange with the upstream API *)

NoCall == [phase |-> "none"]
Rejected == [phase |-> "rejected"]                 \* fetch rejected
Headers(s, text) == [phase |-> "headers", status |-> s, body |-> text]
BodyRead(r) == [r EXCEPT !.phase = "read"]          \* r.text() resolved
BodyLost(r) == [r EXCEPT !.phase = "lost"]          \* r.text() rejected

NotCalled == [threw |-> FALSE, pending |-> TRUE]
NoRequest == [body |-> Undefined, debug |-> Undefined]

\* a response object kept in a variable shared by all requests: the await
\* resumes with the response of the first request waiting for its body
awaitedShared(q) ==
    upstream[CHOOSE p \in Requests :
                 /\ pc[p] = "text"
                 /\ \A o \in Requests : pc[o] = "text" => p <= o]

\* the value the await of request q resumes with
awaited(q) == upstream[q]

---------------------------------------------------------------------------
(* Actions *)

\* A request arrives and its handler runs up to the first await
Receive(q, body, debug) ==
    /\ pc[q] = "idle"
    /\ LET request == [body |-> body, debug |-> debug]
           step == handlerStart(env, request)
       IN  /\ req' = [req EXCEPT ![q] = request]
           /\ IF "respond" \in DOMAIN step
              THEN /\ res' = [res EXCEPT ![q] = Append(@, step.respond)]
                   /\ pc' = [pc EXCEPT ![q] = "done"]
                   /\ out' = out
              ELSE /\ out' = [out EXCEPT ![q] = Append(@, step.fetch)]
                   /\ pc' = [pc EXCEPT ![q] = "fetch"]
                   /\ res' = res
    /\ UNCHANGED <<env, upstream, threadVars, replyVars>>

\* fetch awaited outside the try block: a rejection ends the handler without
\* a response
FetchSettlesUncaught(q, outcome) ==
    /\ pc[q] = "fetch"
    /\ upstream' = [upstream EXCEPT ![q] = outcome]
    /\ pc' = [pc EXCEPT ![q] = IF outcome = Rejected THEN "done" ELSE "text"]
    /\ UNCHANGED <<env, req, out, res, thread, turns, json, reply>>

\* The promise of fetch settles: it rejects (the catch block answers), or it
\* resolves with the status line and the handler goes on to await r.text()
FetchSettles(q, outcome) ==
    /\ pc[q] = "fetch"
    /\ upstream' = [upstream EXCEPT ![q] = outcome]
    /\ IF outcome = Rejected
       THEN /\ res' = [res EXCEPT ![q] = Append(@, UnexpectedError("TypeError"))]
            /\ pc' = [pc EXCEPT ![q] = "done"]
       ELSE /\ pc' = [pc EXCEPT ![q] = "text"]
            /\ res' = res
    /\ UNCHANGED <<env, req, out, threadVars, replyVars>>

\* The promise of r.text() settles: it rejects (the catch block answers), or
\* it resolves and the handler runs to its end
TextSettles(q, complete) ==
    /\ pc[q] = "text"
    /\ LET r == awaited(q)
       IN  IF complete
           THEN /\ upstream' = [upstream EXCEPT ![q] = BodyRead(@)]
                /\ res' = [res EXCEPT ![q] =
                             Append(@, handlerAfterText(env, req[q], r, r.body))]
           ELSE /\ upstream' = [upstream EXCEPT ![q] = BodyLost(@)]
                /\ res' = [res EXCEPT ![q] = Append(@, UnexpectedError("TypeError"))]
    /\ pc' = [pc EXCEPT ![q] = "done"]
    /\ UNCHANGED <<env, req, out, threadVars, replyVars>>

\* a stand-alone call of normalizeThread
CallNormalizeThread ==
    /\ turns = NotCalled
    /\ turns' = normalizeThread(thread)
    /\ UNCHANGED <<handlerVars, thread, replyVars>>

\* a stand-alone call of extractReply
CallExtractReply ==
    /\ reply = NotCalled
    /\ reply' = extractReply(json)
    /\ UNCHANGED <<handlerVars, threadVars, json>>

---------------------------------------------------------------------------
(* Inputs *)

SeqsUpTo(S, n) == UNION {[1..k -> S] : k \in 0..n}

AssistantLit == <<"a", "s", "s", "i", "s", "t", "a", "n", "t">>

\* {} : an object none of whose properties the program reads is set
EmptyObj == Obj([userMessage |-> Undefined])

UserTurn(text) == Obj([role |-> Str(UserLit), text |-> text])
AssistantTurn(text) == Obj([role |-> Str(AssistantLit), text |-> text])

TurnPair == {UserTurn(Str(<<"a">>)), AssistantTurn(Num(7))}

TurnAlphabet ==
    TurnPair \cup
    {Null,
     Str(UserLit),
     EmptyObj,
     Obj([role |-> Null, text |-> Null]),
     Obj([role |-> Str(<<"U", "s", "e", "r">>), text |-> EmptyObj]),
     Obj([role |-> Str(<<"s", "y", "s", "t", "e", "m">>), text |-> Bool(FALSE)]),
     Obj([role |-> Str(UserLit), text |-> Undefined])}

ThreadOf(list) == Obj([turns |-> list])

\* values of thread.turns that are not arrays
NonLists == {Str(<<"x">>), Num(3), Bool(TRUE), EmptyObj}

ThreadSamples ==
    {Undefined, Null, Str(<<"x">>), EmptyObj, ThreadOf(Null)}
    \cup {ThreadOf(v) : v \in NonLists}
    \cup {ThreadOf(Arr(l)) : l \in SeqsUpTo(TurnPair, MaxTurns)}
    \cup {ThreadOf(Arr(l)) : l \in SeqsUpTo(TurnAlphabet, MaxShortTurns)}

TextSamples == SeqsUpTo({"a", " "}, MaxTextLen)

PartSamples ==
    {Null, EmptyObj, Obj([text |-> Null]), Obj([text |-> Num(5)])}
    \cup {Obj([text |-> Str(x)]) : x \in TextSamples}

Stop == Str(<<"S", "T", "O", "P">>)

Candidate(content) == Obj([content |-> content, finishReason |-> Stop])
Envelope(candidates) ==
    Obj([candidates |-> candidates, usageMetadata |-> Obj([totalTokenCount |-> Num(9)])])
EnvelopeOf(parts) == Envelope(Arr(<<Candidate(Obj([parts |-> parts]))>>))

HelloWorld ==
    EnvelopeOf(Arr(<<Obj([text |-> Str(<<"H", "e", "l", "l", "o", " ">>)]),
                     Obj([text |-> Str(<<"w", "o", "r", "l", "d">>)])>>))

EnvelopeSamples ==
    {Null, Num(1), EmptyObj,
     Envelope(Null),
     Envelope(Arr(<<>>)),
     Envelope(Arr(<<Null>>)),
     Envelope(Arr(<<Candidate(Undefined)>>)),
     Envelope(Arr(<<Candidate(Null)>>)),
     EnvelopeOf(Undefined),
     EnvelopeOf(Null)}
    \cup {EnvelopeOf(v) : v \in NonLists}
    \cup {HelloWorld}
    \cup {EnvelopeOf(Arr(l)) : l \in SeqsUpTo(PartSamples, MaxParts)}

---------------------------------------------------------------------------
(* Specifications of the two helpers called on their own *)

HandlerIdle ==
    /\ pc = [q \in Requests |-> "idle"]
    /\ req = [q \in Requests |-> NoRequest]
    /\ out = [q \in Requests |-> <<>>]
    /\ upstream = [q \in Requests |-> NoCall]
    /\ res = [q \in Requests |-> <<>>]

InitThread ==
    /\ env = [GEMINI_API_KEY |-> Undefined, GEMINI_MODEL |-> Undefined]
    /\ HandlerIdle
    /\ thread \in ThreadSamples
    /\ turns = NotCalled
    /\ json = Undefined
    /\ reply = NotCalled

NextThread == CallNormalizeThread

SpecThread == InitThread /\ [][NextThread]_vars

InitExtract ==
    /\ env = [GEMINI_API_KEY |-> Undefined, GEMINI_MODEL |-> Undefined]
    /\ HandlerIdle
    /\ thread = Undefined
    /\ turns = NotCalled
    /\ json \in EnvelopeSamples
    /\ reply = NotCalled

NextExtract == CallExtractReply

SpecExtract == InitExtract /\ [][NextExtract]_vars

---------------------------------------------------------------------------
(* Inputs of the handler *)

Body(um, cp, th) == Obj([userMessage |-> um, contextPack |-> cp, thread |-> th])

Hi == Str(<<"h", "i">>)

\* a history of n turns, alternately of the user and of the assistant, the
\* text of turn i being the number i
History(n) ==
    [i \in 1..n |-> IF i % 2 = 1 THEN UserTurn(Num(i)) ELSE AssistantTurn(Num(i))]

MixedHistory ==
    <<Null, Str(UserLit), EmptyObj,
      Obj([role |-> Str(<<"U", "s", "e", "r">>), text |-> EmptyObj]),
      Obj([role |-> Str(<<"s", "y", "s", "t", "e", "m">>), text |-> Bool(FALSE)]),
      UserTurn(Undefined), AssistantTurn(Str(<<"o", "k">>))>>

FullPack ==
    Obj([coachPersona |-> Str(<<" ", "P">>), playerProfile |-> Num(3),
         recentMatchesSummary |-> Null, constraints |-> Str(<<"c", " ">>)])

KeySamples == {Undefined, Str(<<>>), Str(<<"k">>)}
ModelSamples == {Undefined, Str(<<"m">>)}
UserMessageSamples ==
    {Undefined, Null, Str(<<>>), Num(5), Bool(TRUE), Arr(<<Hi>>), Str(<<" ">>), Hi}
ContextPackSamples ==
    {Undefined, Null, Str(<<"x">>), Num(0), Bool(TRUE), Arr(<<>>), EmptyObj, FullPack}
HandlerThreadSamples ==
    {Undefined, EmptyObj, ThreadOf(Str(<<"x">>)), ThreadOf(Arr(MixedHistory))}
    \cup {ThreadOf(Arr(History(n))) : n \in {KeepTurns, KeepTurns + 1, MaxTurns}}
BodySamples ==
    {Undefined} \cup
    {Body(um, cp, th) : um \in UserMessageSamples, cp \in ContextPackSamples,
                        th \in HandlerThreadSamples}
DebugSamples == {Undefined, Str(<<"1">>), Str(<<"0">>)}

RateLimited == [chars |-> <<"r", "a", "t", "e", " ", "l", "i", "m", "i", "t", "e", "d">>]
Doc(v) == [doc |-> v]

ErrorTexts == {RateLimited, [chars |-> <<>>], Doc(Obj([error |-> Num(1)]))}
SuccessTexts ==
    {RateLimited,
     Doc(Null), Doc(Envelope(Arr(<<>>))), Doc(EnvelopeOf(Str(<<"x">>))),
     Doc(EnvelopeOf(Arr(<<Obj([text |-> Str(<<" ">>)]), EmptyObj>>))),
     Doc(HelloWorld)}
UpstreamSamples ==
    {Rejected}
    \cup {Headers(st, tx) : st \in {300, 503}, tx \in ErrorTexts}
    \cup {Headers(st, tx) : st \in {200, 299}, tx \in SuccessTexts}

\* the inputs of the specification of interleaved requests
ConcRequestSamples ==
    {[body |-> Undefined, debug |-> Undefined],
     [body |-> Body(Hi, EmptyObj, ThreadOf(Str(<<"x">>))), debug |-> Undefined],
     [body |-> Body(Hi, EmptyObj, ThreadOf(Arr(History(2)))), debug |-> Str(<<"1">>)]}
ConcUpstreamSamples ==
    {Rejected, Headers(503, RateLimited), Headers(200, Doc(HelloWorld))}

---------------------------------------------------------------------------
(* Specifications of the handler *)

NoHelperCall ==
    /\ thread = Undefined
    /\ turns = NotCalled
    /\ json = Undefined
    /\ reply = NotCalled

\* Interleaved requests: any request may arrive, and any pending promise may
\* settle, at any time.
Init ==
    /\ env \in {[GEMINI_API_KEY |-> k, GEMINI_MODEL |-> Undefined] :
                  k \in {Undefined, Str(<<"k">>)}}
    /\ HandlerIdle
    /\ NoHelperCall

Next ==
    \E q \in Requests :
        \/ \E r \in ConcRequestSamples : Receive(q, r.body, r.debug)
        \/ \E o \in ConcUpstreamSamples : FetchSettles(q, o)
        \/ \E c \in BOOLEAN : TextSettles(q, c)

Spec == Init /\ [][Next]_vars

\* The promises of fetch and of r.text() settle eventually
Fairness ==
    \A q \in Requests :
        /\ WF_vars(\E o \in ConcUpstreamSamples : FetchSettles(q, o))
        /\ WF_vars(\E c \in BOOLEAN : TextSettles(q, c))

LiveSpec == Spec /\ Fairness

\* One request on its own, in the first slot, over the full range of inputs
Alone(q) == \A p \in Requests : p >= q

InitHandler ==
    /\ env \in {[GEMINI_API_KEY |-> k, GEMINI_MODEL |-> m] :
                  k \in KeySamples, m \in ModelSamples}
    /\ HandlerIdle
    /\ NoHelperCall

NextHandler ==
    \E q \in Requests :
        \/ /\ Alone(q) /\ pc[q] = "idle"
           /\ \E b \in BodySamples, d \in DebugSamples : Receive(q, b, d)
        \/ \E o \in UpstreamSamples : FetchSettles(q, o)
        \/ \E c \in BOOLEAN : TextSettles(q, c)

SpecHandler == InitHandler /\ [][NextHandler]_vars

---------------------------------------------------------------------------
(* Vocabulary of the properties *)

Min(a, b) == IF a <= b THEN a ELSE b

AllWhite(s) == \A i \in 1..Len(s) : s[i] \in WhiteSpace

\* t is s without its leading and trailing white space
IsTrimOf(t, s) ==
    /\ t # <<>>
    /\ t[1] \notin WhiteSpace
    /\ t[Len(t)] \notin WhiteSpace
    /\ \E i \in 0..Len(s) :
          /\ i + Len(t) <= Len(s)
          /\ SubSeq(s, i + 1, i + Len(t)) = t
          /\ AllWhite(SubSeq(s, 1, i))
          /\ AllWhite(SubSeq(s, i + Len(t) + 1, Len(s)))

\* candidates[0].content.parts of an envelope
PartsLink(j) == Get(Get(At0(Get(j, "candidates")), "content"), "parts")

\* the text fields of a list of parts, concatenated in order, a missing text
\* counting as empty
RECURSIVE ConcatTexts(_)
ConcatTexts(ps) ==
    IF Len(ps) = 0 THEN <<>>
    ELSE (IF Nullish(Get(ps[1], "text")) THEN <<>> ELSE JSString(Get(ps[1], "text")))
         \o ConcatTexts(SubSeq(ps, 2, Len(ps)))

\* what reply extraction is to return for envelope j whose parts link is
\* missing or a list
IsReplyOf(r, j) ==
    LET ps == IF Nullish(PartsLink(j)) THEN <<>> ELSE PartsLink(j).arr
        s == ConcatTexts(ps)
    IN  IF AllWhite(s) THEN r = Fallback ELSE IsTrimOf(r, s)

---------------------------------------------------------------------------
(* C6 *)

\* C6: for every parsed upstream envelope, reply extraction returns the text
\* fields of candidates[0].content.parts concatenated in array order with no
\* separator and trimmed (a missing text is empty, a missing link is no
\* parts), or the fixed fallback string when that is empty; it never returns
\* an empty string or null.
C6_ExtractReplyEveryEnvelope ==
    reply # NotCalled =>
        /\ ~reply.threw
        /\ reply.reply # <<>>
        /\ IsReplyOf(reply.reply, json)

\* What holds of reply extraction: the same for every envelope whose
\* candidates[0].content.parts is missing or a list; for any other envelope
\* it raises a TypeError.
ExtractReplyOnLists ==
    reply # NotCalled =>
        IF Nullish(PartsLink(json)) \/ PartsLink(json).t = "array"
        THEN /\ ~reply.threw
             /\ reply.reply # <<>>
             /\ IsReplyOf(reply.reply, json)
        ELSE reply.threw

\* the example of the claim: "Hello " and "world" give "Hello world"
HelloWorldExtracted ==
    (reply # NotCalled /\ json = HelloWorld) =>
        reply = [threw |-> FALSE,
                 reply |-> <<"H", "e", "l", "l", "o", " ", "w", "o", "r", "l", "d">>]

---------------------------------------------------------------------------
(* C7 *)

\* C7: thread normalization keeps exactly the last min(n, 10) turns of a
\* thread of n turns, in their original relative order (turn i of the output
\* is turn n - min(n, 10) + i of the input, normalized), and yields the empty
\* list when no thread or no turn list is supplied; it raises no error.
C7_NormalizeKeepsLastTen ==
    turns # NotCalled =>
        LET list == Get(thread, "turns")
        IN  /\ list.t = "array" =>
                 LET n == Len(list.arr)
                     k == Min(n, 10)
                 IN  /\ ~turns.threw
                     /\ Len(turns.turns) = k
                     /\ \A i \in 1..k :
                           turns.turns[i] = normalizeTurn(list.arr[n - k + i])
            /\ Nullish(list) => (~turns.threw /\ turns.turns = <<>>)

\* a history longer than ten turns has been normalized
C7_Witness ==
    /\ turns # NotCalled
    /\ Get(thread, "turns").t = "array"
    /\ Len(Get(thread, "turns").arr) > 10
    /\ ~turns.threw
    /\ Len(turns.turns) = 10

---------------------------------------------------------------------------
(* Vocabulary of the properties of the handler *)

Received(q) == pc[q] # "idle"

ReqField(q, k) == Get(Coalesce(req[q].body, EmptyObj), k)

\* no usable credential is configured: GEMINI_API_KEY is unset or empty
CredentialAbsent ==
    env.GEMINI_API_KEY = Undefined \/ env.GEMINI_API_KEY = Str(<<>>)

\* userMessage is absent, empty or not a string
UserMessageInvalid(q) ==
    LET um == ReqField(q, "userMessage")
    IN  um \in {Undefined, Null} \/ um = Str(<<>>) \/ um.t # "string"

\* contextPack is absent or not of type object (an array is of type object)
ContextPackInvalid(q) ==
    LET cp == ReqField(q, "contextPack")
    IN  cp \in {Undefined, Null} \/ cp.t \notin {"object", "array"}

FailsValidation(q) ==
    CredentialAbsent \/ UserMessageInvalid(q) \/ ContextPackInvalid(q)

\* the turn list supplied with the request is neither missing nor a list
TurnListMalformed(q) ==
    LET l == Get(ReqField(q, "thread"), "turns")
    IN  ~Nullish(l) /\ l.t # "array"

\* the upstream call of q has completed: status and whole body received
Completed(q) == upstream[q].phase = "read"

SuccessStatus(q) == upstream[q].status \in 200..299

Parseable(text) == "doc" \in DOMAIN text

\* the body of a completed call is JSON from which a reply can be extracted
Extractable(q) ==
    /\ Parseable(upstream[q].body)
    /\ LET link == PartsLink(upstream[q].body.doc)
       IN  Nullish(link) \/ link.t = "array"

Generic500 == [status |-> 500, body |-> [error |-> "Unexpected error"]]

---------------------------------------------------------------------------
(* C1 *)

\* C1: the preconditions are checked in the order credential, userMessage,
\* contextPack and the first failing check alone decides the response: with
\* no credential the response is 500 "Missing GEMINI_API_KEY" whatever the
\* body; otherwise with an absent, empty or non-string userMessage it is 400
\* "Missing or invalid userMessage" whatever contextPack is; otherwise with
\* an absent or non-object contextPack it is 400 "Missing or invalid
\* contextPack".
C1_ValidationOrder ==
    \A q \in Requests :
        Received(q) =>
            /\ CredentialAbsent =>
                 res[q] = <<[status |-> 500,
                             body |-> [error |-> "Missing GEMINI_API_KEY"]]>>
            /\ (~CredentialAbsent /\ UserMessageInvalid(q)) =>
                 res[q] = <<[status |-> 400,
                             body |-> [error |-> "Missing or invalid userMessage"]]>>
            /\ (~CredentialAbsent /\ ~UserMessageInvalid(q) /\ ContextPackInvalid(q)) =>
                 res[q] = <<[status |-> 400,
                             body |-> [error |-> "Missing or invalid contextPack"]]>>

\* a request failing both body checks was answered by the first of them
C1_Witness ==
    \E q \in Requests :
        /\ Received(q)
        /\ ~CredentialAbsent
        /\ UserMessageInvalid(q)
        /\ ContextPackInvalid(q)
        /\ res[q] = <<[status |-> 400,
                       body |-> [error |-> "Missing or invalid userMessage"]]>>

---------------------------------------------------------------------------
(* C2 *)

\* C2: a request issues 0 upstream calls when it fails a validation check
\* (missing credential, invalid userMessage, invalid contextPack) and exactly
\* 1 otherwise; never a second one, whatever the upstream answers.
C2_UpstreamCallCount ==
    \A q \in Requests :
        Received(q) => Len(out[q]) = IF FailsValidation(q) THEN 0 ELSE 1

\* What holds of the call count: a request that fails validation, or whose
\* turn list is malformed, issues no call; any other issues exactly one.
UpstreamCallCount ==
    \A q \in Requests :
        Received(q) =>
            Len(out[q]) = IF FailsValidation(q) \/ TurnListMalformed(q) THEN 0 ELSE 1

---------------------------------------------------------------------------
(* C3 *)

\* C3: whenever the upstream call of a validated request returns a status
\* outside the success range, the response is 502 with status the upstream
\* status code and detail the upstream body text unchanged; never a 200 with
\* a reply.
C3_BadGateway ==
    \A q \in Requests :
        (Completed(q) /\ ~SuccessStatus(q)) =>
            res[q] = <<[status |-> 502,
                        body |-> [error |-> "Gemini call failed",
                                  status |-> upstream[q].status,
                                  detail |-> upstream[q].body]]>>

\* upstream 503 "rate limited" has been answered
C3_Witness ==
    \E q \in Requests :
        /\ Completed(q)
        /\ upstream[q].status = 503
        /\ upstream[q].body = RateLimited
        /\ Len(res[q]) = 1
        /\ res[q][1].status = 502

---------------------------------------------------------------------------
(* C4 *)

\* C4 (as claimed): on any upstream call that returns a status in the
\* success range the handler responds 200 with a non-empty reply.
C4_AlwaysReply ==
    \A q \in Requests :
        (Completed(q) /\ SuccessStatus(q)) =>
            /\ Len(res[q]) = 1
            /\ res[q][1].status = 200
            /\ "reply" \in DOMAIN res[q][1].body
            /\ res[q][1].body.reply # <<>>

\* C4 (amended): on an upstream call that returns a status in the success
\* range, the handler responds 200 with a non-empty reply when the body
\* parses as JSON and the reply is extracted from it (even if the model
\* returned no usable text), and the generic 500 when parsing the body or
\* extracting the reply raises.
C4_ReplyWhenExtractable ==
    \A q \in Requests :
        (Completed(q) /\ SuccessStatus(q)) =>
            /\ Len(res[q]) = 1
            /\ IF Extractable(q)
               THEN /\ res[q][1].status = 200
                    /\ "reply" \in DOMAIN res[q][1].body
                    /\ res[q][1].body.reply # <<>>
               ELSE res[q][1] = Generic500

\* a success with no candidates has been answered with the fallback
C4_Witness ==
    \E q \in Requests :
        /\ Completed(q)
        /\ SuccessStatus(q)
        /\ upstream[q].body = Doc(Envelope(Arr(<<>>)))
        /\ Len(res[q]) = 1
        /\ res[q][1].status = 200
        /\ res[q][1].body.reply = Fallback

---------------------------------------------------------------------------
(* C5 *)

\* an exception was raised inside the handler of q
Raised(q) ==
    \/ ~FailsValidation(q) /\ TurnListMalformed(q)
    \/ upstream[q].phase \in {"rejected", "lost"}
    \/ Completed(q) /\ SuccessStatus(q) /\ ~Extractable(q)

\* C5: when the upstream call returns a success status with a body that is
\* not parseable as JSON, or any other exception is raised inside the
\* handler, the request ends with a 500 whose body is exactly
\* {error: "Unexpected error"}: no part of the upstream body or of the
\* exception, and no 200.
C5_GenericError ==
    \A q \in Requests :
        (Received(q) /\ Raised(q)) => res[q] = <<Generic500>>

\* a success status with a body that is not JSON has been answered
C5_Witness ==
    \E q \in Requests :
        /\ Completed(q)
        /\ upstream[q].status = 200
        /\ upstream[q].body = RateLimited
        /\ res[q] = <<Generic500>>

---------------------------------------------------------------------------
(* C8 *)

\* the turn list supplied with request q, empty when there is none
SuppliedTurns(q) ==
    LET l == Get(ReqField(q, "thread"), "turns")
    IN  IF l.t = "array" THEN l.arr ELSE <<>>

\* C8: in every upstream payload sent, contents is the normalized history
\* turns, oldest to newest (role "user" only when the source role is exactly
\* "user", "model" otherwise), followed by exactly one new turn, last in the
\* list, of role "user" and carrying the request's userMessage; the list has
\* between 1 and 11 turns.
C8_ContentsOrder ==
    \A q \in Requests :
        \A c \in 1..Len(out[q]) :
            LET contents == out[q][c].body.contents
                src == SuppliedTurns(q)
                n == Len(src)
                k == Min(n, 10)
            IN  /\ Len(contents) = k + 1
                /\ Len(contents) \in 1..11
                /\ contents[k + 1] =
                     [role |-> "user",
                      parts |-> <<[text |-> ReqField(q, "userMessage").str]>>]
                /\ \A i \in 1..k :
                     LET t == src[n - k + i]
                     IN  /\ contents[i].role =
                              IF Get(t, "role") = Str(<<"u", "s", "e", "r">>)
                              THEN "user" ELSE "model"
                         /\ contents[i].parts =
                              <<[text |-> IF Nullish(Get(t, "text")) THEN <<>>
                                          ELSE JSString(Get(t, "text"))]>>

\* a payload was sent for a history longer than ten turns
C8_Witness ==
    \E q \in Requests :
        /\ Len(out[q]) = 1
        /\ Len(SuppliedTurns(q)) > 10
        /\ Len(out[q][1].body.contents) = 11
        /\ out[q][1].body.contents[1].role = "user"
        /\ out[q][1].body.contents[2].role = "model"

---------------------------------------------------------------------------
(* C9 *)

\* C9: requests are isolated: the response of a request is determined by its
\* own body and query, the configuration and its own upstream response, so
\* two requests that agree on these agree on what they sent and answered,
\* whatever the other requests in flight or finished did.
C9_Isolation ==
    \A p, q \in Requests :
        (pc[p] = pc[q] /\ req[p] = req[q] /\ upstream[p] = upstream[q]) =>
            (res[p] = res[q] /\ out[p] = out[q])

\* two finished requests with the same inputs, beside a third that was
\* answered differently
C9_Witness ==
    \E p, q, r \in Requests :
        /\ p # q
        /\ pc[p] = "done" /\ pc[q] = "done" /\ pc[r] = "done"
        /\ req[p] = req[q] /\ upstream[p] = upstream[q]
        /\ Completed(p)
        /\ res[p] = res[q]
        /\ res[r] # res[p]

---------------------------------------------------------------------------
(* C10 *)

OneResponse(q) ==
    /\ Len(res[q]) <= 1
    /\ Len(out[q]) <= 1
    /\ (pc[q] = "done") <=> (Len(res[q]) = 1)
    /\ \A i \in 1..Len(res[q]) : res[q][i].status \in {200, 400, 500, 502}

\* after its response a request sends nothing more and issues no call, and a
\* request waiting for its upstream call is answered only when that call
\* settles
NothingAfterResponse(q) ==
    /\ res[q] # <<>> => (res'[q] = res[q] /\ out'[q] = out[q])
    /\ (pc[q] = "fetch" /\ res'[q] # res[q]) => upstream'[q] = Rejected
    /\ (pc[q] = "text" /\ res'[q] # res[q]) => upstream'[q].phase \in {"read", "lost"}

\* C10: every request that reaches the handler receives exactly one
\* response, of status 200, 400, 500 or 502, provided its upstream call (if
\* any) eventually completes or fails; never two responses, no upstream call
\* after the response, and no response to a waiting request before its
\* upstream call settles (no timeout).
C10_ExactlyOneResponse ==
    /\ [](\A q \in Requests : OneResponse(q))
    /\ [][\A q \in Requests : NothingAfterResponse(q)]_vars
    /\ \A q \in Requests : (pc[q] # "idle") ~> (Len(res[q]) = 1)

\* a request that called the upstream API has been answered once
C10_Witness ==
    \E q \in Requests :
        /\ pc[q] = "done"
        /\ Completed(q)
        /\ Len(out[q]) = 1
        /\ Len(res[q]) = 1

=============================================================================
